---- MODULE Spec2Model ----
(***************************************************************************)
(* Model of lib/spack/spack/multimethod.py: the SpecMultiMethod dispatch   *)
(* table (method_map, default, __name__), its register / __get__ /         *)
(* __call__ methods, and the `when` decorator that builds tables while a   *)
(* package class body is executed.                                         *)
(*                                                                         *)
(* Two specifications share the variables:                                 *)
(*   Spec       a table object `mf` driven through its own API, as in the  *)
(*              class docstring (mf = SpecMultiMethod(); mf.register(..))  *)
(*   SpecScope  a class body: plain and @when definitions rebinding names  *)
(*              of the scope, and calls of those names on an instance.     *)
(***************************************************************************)
EXTENDS Integers, Sequences, FiniteSets, TLC

VARIABLES
    mf,        \* the value of the variable mf: nothing yet, or a SpecMultiMethod
    scope,     \* the locals of the class body: name -> value bound to it
    shadowed,  \* history: name -> the functions held by the table that the
               \* plain definition now bound to the name replaced
    created,   \* history: name -> number of SpecMultiMethod objects the
               \* decorator has constructed for the name
    order,     \* two tables given the same default and the same (spec, method)
               \* pairs, and the pairs each of them has still to be given
    outcome    \* what the last operation was given and what it did

vars == <<mf, scope, shadowed, created, order, outcome>>

---------------------------------------------------------------------------
(* Bounds of the model *)

MaxConstraints == 2
\* number of distinct constraint specs (keys of method_map)

MaxImpls == 3
\* number of distinct function objects

MaxArg == 1
\* number of distinct extra argument values

MaxTables == 2
\* number of tables constructed for one name while a class body is counted

---------------------------------------------------------------------------
(* The opaque collaborators *)

\* Constraint specs, compared by equality as dictionary keys.
Constraints == 1..MaxConstraints

\* A package spec is modelled by the set of constraints it is matched by.
Descriptors == SUBSET Constraints

\* s.satisfies(spec)
satisfies(s, spec) == s \in spec

\* Function objects; 0 stands for None.
None == 0
Impls == 1..MaxImpls

Names == {"install", "setup"}

\* method.__name__ : every third function object is a `setup`, the others
\* are versions of `install`.
NameOf(m) == IF m % 3 = 0 THEN "setup" ELSE "install"

\* Absence of the __name__ attribute on a table.
NoAttr == "<no attribute>"

\* Package instances carry a spec attribute; other argument values do not.
Packages == [spec : Descriptors]
ArgValues == [val : 1..MaxArg]
ArgLists == {<<>>} \cup {<<a>> : a \in ArgValues}

HasAttr(obj, attr) == attr \in DOMAIN obj

\* What a function object does when it is called: it returns a value built
\* from what it received, or raises its own error (here: when it is given
\* no extra argument).
NoResult == [kind |-> "none", by |-> None, self |-> <<>>, args |-> <<>>]
Body(m, package_self, args) ==
    [kind |-> IF Len(args) = 0 THEN "raise" ELSE "return",
     by   |-> m,
     self |-> <<package_self>>,
     args |-> args]

---------------------------------------------------------------------------
(* SpecMultiMethod *)

EmptyMap == [s \in {} |-> None]

\* The dictionary assignment d[k] = v
DictSet(d, k, v) == [x \in (DOMAIN d) \cup {k} |-> IF x = k THEN v ELSE d[x]]

\* functools.update_wrapper(self, wrapped), as far as __name__ goes
update_wrapper(self, wrapped) == [self EXCEPT !.name = NameOf(wrapped)]

\* SpecMultiMethod.__init__(self, default=None)
SpecMultiMethod_init(default) ==
    LET self == [method_map |-> EmptyMap, default |-> default, name |-> NoAttr]
    IN  IF default # None THEN update_wrapper(self, default) ELSE self

\* register that takes over the name of every function it is given
MutRegisterRenames(self, spec, method) ==
    LET stored == [self EXCEPT !.method_map = DictSet(self.method_map, spec, method)]
    IN  [self |-> update_wrapper(stored, method), raised |-> "none"]

\* register that checks the name before it stores anything
MutRegisterCheckFirst(self, spec, method) ==
    IF self.name # NoAttr /\ self.name # NameOf(method)
    THEN [self |-> self, raised |-> "AssertionError"]
    ELSE LET stored == [self EXCEPT !.method_map = DictSet(self.method_map, spec, method)]
         IN  IF stored.name = NoAttr
             THEN [self |-> update_wrapper(stored, method), raised |-> "none"]
             ELSE [self |-> stored, raised |-> "none"]

MutRegisterNoAssert(self, spec, method) ==
    LET stored == [self EXCEPT !.method_map = DictSet(self.method_map, spec, method)]
    IN  IF stored.name = NoAttr
        THEN [self |-> update_wrapper(stored, method), raised |-> "none"]
        ELSE [self |-> stored, raised |-> "none"]

\* register that keeps what a spec already maps to (setdefault)
MutRegisterKeepFirst(self, spec, method) ==
    LET stored == IF spec \in DOMAIN self.method_map THEN self
                  ELSE [self EXCEPT !.method_map = DictSet(self.method_map, spec, method)]
    IN  IF stored.name = NoAttr
        THEN [self |-> update_wrapper(stored, method), raised |-> "none"]
        ELSE IF stored.name = NameOf(method)
             THEN [self |-> stored, raised |-> "none"]
             ELSE [self |-> stored, raised |-> "AssertionError"]

\* SpecMultiMethod.register(self, spec, method): the table afterwards and
\* whether the call raised (the assertion comes after the assignment).
SpecMultiMethod_register(self, spec, method) ==
    LET stored == [self EXCEPT !.method_map = DictSet(self.method_map, spec, method)]
    IN  IF stored.name = NoAttr
        THEN [self |-> update_wrapper(stored, method), raised |-> "none"]
        ELSE IF stored.name = NameOf(method)
             THEN [self |-> stored, raised |-> "none"]
             ELSE [self |-> stored, raised |-> "AssertionError"]

\* The result of a call: the error raised by the dispatch itself (or
\* "none"), the function selected, the specs the error lists, and what
\* the selected function did.
Raise(error, listed) ==
    [raised |-> error, selected |-> None, listed |-> listed, result |-> NoResult]
\* a call that turns the error of the called function into a dispatch error
MutInvokeWraps(method, package_self, args) ==
    IF Body(method, package_self, args).kind = "raise"
    THEN [raised |-> "NoSuchMethodError", selected |-> None, listed |-> {},
          result |-> NoResult]
    ELSE [raised |-> "none", selected |-> method, listed |-> {},
          result |-> Body(method, package_self, args)]

Invoke(method, package_self, args) ==
    [raised |-> "none", selected |-> method, listed |-> {},
     result |-> Body(method, package_self, args)]

\* the comprehension with its condition negated
MutMatchingInverted(self, spec) ==
    {s \in DOMAIN self.method_map : ~satisfies(s, spec)}

\* [s for s in self.method_map if s.satisfies(spec)]
matching_specs(self, spec) ==
    {s \in DOMAIN self.method_map : satisfies(s, spec)}

\* __call__ taking the first of several matches instead of raising
MutSelectFirstMatch(self, matching, package_self, args) ==
    IF Cardinality(matching) = 0
    THEN IF self.default = None
         THEN IF self.name = NoAttr
              THEN Raise("AttributeError", {})
              ELSE Raise("NoSuchMethodError", DOMAIN self.method_map)
         ELSE Invoke(self.default, package_self, args)
    ELSE Invoke(self.method_map[CHOOSE s \in matching : TRUE], package_self, args)

\* __call__ without the fallback to the default
MutSelectNoDefault(self, matching, package_self, args) ==
    IF Cardinality(matching) = 0
    THEN IF self.name = NoAttr
         THEN Raise("AttributeError", {})
         ELSE Raise("NoSuchMethodError", DOMAIN self.method_map)
    ELSE IF Cardinality(matching) = 1
         THEN Invoke(self.method_map[CHOOSE s \in matching : TRUE], package_self, args)
         ELSE Raise("AmbiguousMethodError", matching)

\* The branches of __call__ on the number of matches, and the final call.
select(self, matching, package_self, args) ==
    LET num_matches == Cardinality(matching)
    IN  IF num_matches = 0
        THEN IF self.default = None
             THEN IF self.name = NoAttr
                  THEN Raise("AttributeError", {})   \* self.__name__ is read
                  ELSE Raise("NoSuchMethodError", DOMAIN self.method_map)
             ELSE Invoke(self.default, package_self, args)
        ELSE IF num_matches = 1
             THEN Invoke(self.method_map[CHOOSE s \in matching : TRUE],
                         package_self, args)
             ELSE Raise("AmbiguousMethodError", matching)

\* SpecMultiMethod.__call__(self, package_self, *args): argv is the whole
\* positional argument list.
SpecMultiMethod_call(self, argv) ==
    IF Len(argv) = 0 THEN Raise("TypeError", {})
    ELSE LET package_self == Head(argv)
             args == Tail(argv)
         IN  IF ~HasAttr(package_self, "spec") THEN Raise("AttributeError", {})
             ELSE select(self, matching_specs(self, package_self.spec),
                         package_self, args)

\* functools.partial(func, *args) and calling it
partial(func, args) == [func |-> func, args |-> args]
partial_call(p, more) == SpecMultiMethod_call(p.func, p.args \o more)

\* __get__ that binds nothing
MutGetUnbound(self, obj, objtype) == partial(self, <<>>)

\* SpecMultiMethod.__get__(self, obj, objtype)
SpecMultiMethod_get(self, obj, objtype) == partial(self, <<obj>>)

---------------------------------------------------------------------------
(* Values bound to names *)

NoTable == SpecMultiMethod_init(None)

Unbound == [kind |-> "None", func |-> None, table |-> NoTable]
Function(m) == [kind |-> "function", func |-> m, table |-> NoTable]
Table(t) == [kind |-> "SpecMultiMethod", func |-> None, table |-> t]

IsTable(v) == v.kind = "SpecMultiMethod"

\* the decorator constructing a table for every definition
MutWhenAlwaysNew(locals, spec, method) ==
    LET found == locals[NameOf(method)]
        original_method ==
            SpecMultiMethod_init(IF IsTable(found) THEN found.table.default
                                 ELSE found.func)
        reg == SpecMultiMethod_register(original_method, spec, method)
    IN  [value |-> Table(reg.self), raised |-> reg.raised, created |-> TRUE]

\* the decorator creating its table without the original method
MutWhenNoDefault(locals, spec, method) ==
    LET found == locals[NameOf(method)]
        original_method ==
            IF ~IsTable(found) THEN SpecMultiMethod_init(None)
            ELSE found.table
        reg == SpecMultiMethod_register(original_method, spec, method)
    IN  [value |-> Table(reg.self), raised |-> reg.raised,
         created |-> ~IsTable(found)]

\* when.__call__(self, method) with self.spec = spec, given the value
\* caller_locals() holds: the value the decorator returns, and the error
\* that escapes it.
when_call(locals, spec, method) ==
    LET found == locals[NameOf(method)]
        original_method ==
            IF ~IsTable(found) THEN SpecMultiMethod_init(found.func)
            ELSE found.table
        reg == SpecMultiMethod_register(original_method, spec, method)
    IN  [value |-> Table(reg.self), raised |-> reg.raised,
         created |-> ~IsTable(found)]

---------------------------------------------------------------------------
(* The state machine *)

NoOutcome ==
    [op |-> "none", name |-> "", spec |-> 0, method |-> None, prior |-> None,
     receiver |-> <<>>, args |-> <<>>,
     raised |-> "none", selected |-> None, listed |-> {}, result |-> NoResult]

\* Two fresh tables SpecMultiMethod(default) and the pairs to register
OrderStart(default, pairs) ==
    [left  |-> SpecMultiMethod_init(default), todoL |-> pairs,
     right |-> SpecMultiMethod_init(default), todoR |-> pairs]

Init ==
    /\ order = OrderStart(None, EmptyMap)
    /\ mf = Unbound
    /\ scope = [n \in Names |-> Unbound]
    /\ shadowed = [n \in Names |-> {}]
    /\ created = [n \in Names |-> 0]
    /\ outcome = NoOutcome

CallOutcome(op, name, obj, args, r) ==
    [op |-> op, name |-> name, spec |-> 0, method |-> None, prior |-> None,
     receiver |-> <<obj>>, args |-> args,
     raised |-> r.raised, selected |-> r.selected, listed |-> r.listed,
     result |-> r.result]

\* prior: what the table held under spec before (None when nothing)
Stored(t, spec) == IF spec \in DOMAIN t.method_map THEN t.method_map[spec] ELSE None

DefOutcome(op, name, spec, method, prior, raised) ==
    [NoOutcome EXCEPT !.op = op, !.name = name, !.spec = spec,
                      !.method = method, !.prior = prior, !.raised = raised]

\* mf = SpecMultiMethod(default)
New(default) ==
    /\ mf' = Table(SpecMultiMethod_init(default))
    /\ outcome' = DefOutcome("new", "", 0, default, None, "none")
    /\ UNCHANGED <<scope, shadowed, created, order>>

\* mf.register(spec, method)
Register(spec, method) ==
    /\ IsTable(mf)
    /\ LET reg == SpecMultiMethod_register(mf.table, spec, method)
       IN  /\ mf' = Table(reg.self)
           /\ outcome' = DefOutcome("register", "", spec, method, Stored(mf.table, spec), reg.raised)
    /\ UNCHANGED <<scope, shadowed, created, order>>

\* a call that remembers the function it selected as the new default
MutCallCaches(obj, args) ==
    /\ IsTable(mf)
    /\ LET r == SpecMultiMethod_call(mf.table, <<obj>> \o args)
       IN  /\ outcome' = CallOutcome("call", "", obj, args, r)
           /\ mf' = IF r.selected = None THEN mf
                    ELSE Table([mf.table EXCEPT !.default = r.selected])
    /\ UNCHANGED <<scope, shadowed, created, order>>

\* mf(obj, *args)
Call(obj, args) ==
    /\ IsTable(mf)
    /\ outcome' = CallOutcome("call", "", obj, args,
                              SpecMultiMethod_call(mf.table, <<obj>> \o args))
    /\ UNCHANGED <<mf, scope, shadowed, created, order>>

\* obj.mf(*args), mf being an attribute of obj's class
BoundCall(obj, args) ==
    /\ IsTable(mf)
    /\ outcome' = CallOutcome("bound", "", obj, args,
                              partial_call(SpecMultiMethod_get(mf.table, obj, "type"), args))
    /\ UNCHANGED <<mf, scope, shadowed, created, order>>

Next ==
    \/ \E default \in Impls \cup {None} : New(default)
    \/ \E spec \in Constraints, method \in Impls : Register(spec, method)
    \/ \E obj \in Packages, args \in ArgLists : Call(obj, args)
    \/ \E obj \in Packages, args \in ArgLists : BoundCall(obj, args)

Spec == Init /\ [][Next]_vars

---------------------------------------------------------------------------
(* The class body *)

Range(f) == {f[x] : x \in DOMAIN f}

\* a plain definition that becomes the default of the table already bound
MutDefIntoTable(method) ==
    LET name == NameOf(method)
    IN  /\ scope' = [scope EXCEPT ![name] =
                         IF IsTable(scope[name])
                         THEN Table([scope[name].table EXCEPT !.default = method])
                         ELSE Function(method)]
        /\ shadowed' = [shadowed EXCEPT ![name] =
                            IF IsTable(scope[name])
                            THEN Range(scope[name].table.method_map) ELSE {}]
        /\ outcome' = DefOutcome("def", name, 0, method, None, "none")
        /\ UNCHANGED <<mf, created, order>>

\* def <name>(self, ...): the name is rebound to the new function
Def(method) ==
    LET name == NameOf(method)
    IN  /\ scope' = [scope EXCEPT ![name] = Function(method)]
        /\ shadowed' = [shadowed EXCEPT ![name] =
                            IF IsTable(scope[name])
                            THEN Range(scope[name].table.method_map) ELSE {}]
        /\ outcome' = DefOutcome("def", name, 0, method, None, "none")
        /\ UNCHANGED <<mf, created, order>>

\* @when(spec) def <name>(self, ...): the name is rebound to what the
\* decorator returns; when the decorator raises the name keeps the object
\* it was bound to (which register has already written to).
BindDecorated(spec, method) ==
    LET name == NameOf(method)
        r == when_call(scope, spec, method)
    IN  /\ scope' = IF r.raised = "none" \/ IsTable(scope[name])
                    THEN [scope EXCEPT ![name] = r.value] ELSE scope
        /\ shadowed' = [shadowed EXCEPT ![name] = {}]
        /\ outcome' = DefOutcome("when", name, spec, method, Stored(scope[name].table, spec), r.raised)
        /\ UNCHANGED <<mf, order>>

WhenDef(spec, method) ==
    /\ BindDecorated(spec, method)
    /\ UNCHANGED created

\* obj.<name>(*args) for the value the class holds under the name: a
\* function is called with obj as its first argument, a SpecMultiMethod
\* goes through __get__.
getattr_call(value, obj, args) ==
    IF value.kind = "function" THEN Invoke(value.func, obj, args)
    ELSE IF IsTable(value)
         THEN partial_call(SpecMultiMethod_get(value.table, obj, "type"), args)
         ELSE Raise("AttributeError", {})

CallName(name, obj, args) ==
    /\ outcome' = CallOutcome("callname", name, obj, args,
                              getattr_call(scope[name], obj, args))
    /\ UNCHANGED <<mf, scope, shadowed, created, order>>

NextScope ==
    \/ \E method \in Impls : Def(method)
    \/ \E spec \in Constraints, method \in Impls : WhenDef(spec, method)
    \/ \E name \in Names, obj \in Packages, args \in ArgLists : CallName(name, obj, args)

SpecScope == Init /\ [][NextScope]_vars

---------------------------------------------------------------------------
(* The class body with the constructed tables counted *)

\* @when(spec) def <name>(self, ...), counting SpecMultiMethod(...) of
\* line 191; at most MaxTables constructions per name are followed.
CountedWhenDef(spec, method) ==
    LET name == NameOf(method)
        r == when_call(scope, spec, method)
    IN  /\ r.created => created[name] < MaxTables
        /\ BindDecorated(spec, method)
        /\ created' = [created EXCEPT ![name] = IF r.created THEN @ + 1 ELSE @]

NextLifecycle ==
    \/ \E method \in Impls : Def(method)
    \/ \E spec \in Constraints, method \in Impls : CountedWhenDef(spec, method)

SpecLifecycle == Init /\ [][NextLifecycle]_vars

---------------------------------------------------------------------------
(* Two tables registered with the same pairs in any two orders *)

\* Sets of (spec, method) pairs with pairwise distinct specs
PairSets == UNION {[S -> Impls] : S \in SUBSET Constraints}

Restrict(f, S) == [x \in S |-> f[x]]

InitOrder ==
    /\ mf = Unbound
    /\ scope = [n \in Names |-> Unbound]
    /\ shadowed = [n \in Names |-> {}]
    /\ created = [n \in Names |-> 0]
    /\ outcome = NoOutcome
    /\ \E default \in Impls \cup {None}, pairs \in PairSets :
           order = OrderStart(default, pairs)

\* left.register(spec, method) for a pair not yet given to left
RegisterLeft(spec) ==
    /\ spec \in DOMAIN order.todoL
    /\ order' = [order EXCEPT
                     !.left = SpecMultiMethod_register(@, spec, order.todoL[spec]).self,
                     !.todoL = Restrict(@, DOMAIN @ \ {spec})]
    /\ UNCHANGED <<mf, scope, shadowed, created, outcome>>

\* right.register(spec, method) for a pair not yet given to right
RegisterRight(spec) ==
    /\ spec \in DOMAIN order.todoR
    /\ order' = [order EXCEPT
                     !.right = SpecMultiMethod_register(@, spec, order.todoR[spec]).self,
                     !.todoR = Restrict(@, DOMAIN @ \ {spec})]
    /\ UNCHANGED <<mf, scope, shadowed, created, outcome>>

\* left(obj, *args) once both tables have been given every pair
Dispatch(obj, args) ==
    /\ DOMAIN order.todoL = {}
    /\ DOMAIN order.todoR = {}
    /\ outcome' = CallOutcome("dispatch", "", obj, args,
                              SpecMultiMethod_call(order.left, <<obj>> \o args))
    /\ UNCHANGED <<mf, scope, shadowed, created, order>>

NextOrder ==
    \/ \E spec \in Constraints : RegisterLeft(spec)
    \/ \E spec \in Constraints : RegisterRight(spec)
    \/ \E obj \in Packages, args \in ArgLists : Dispatch(obj, args)

SpecOrder == InitOrder /\ [][NextOrder]_vars

---------------------------------------------------------------------------
(* Properties of the table API (specification Spec) *)

\* The last operation was a call of the table mf, direct or bound.
IsCall == IsTable(mf) /\ outcome.op \in {"call", "bound"}
Receiver == outcome.receiver[1]

\* The registered constraints the receiver's spec satisfies.
Satisfied == {c \in DOMAIN mf.table.method_map : satisfies(c, Receiver.spec)}

\* C1: when exactly one registered constraint is satisfied by the receiver's
\* spec, the call invokes the function stored under that constraint and no
\* other one, the default included.
C1_UniqueMatchInvoked ==
    IsCall =>
        \A c \in Constraints :
            Satisfied = {c} =>
                /\ outcome.raised = "none"
                /\ outcome.selected = mf.table.method_map[c]
                /\ outcome.result.by = mf.table.method_map[c]

C1_Witness ==
    /\ IsCall
    /\ Cardinality(Satisfied) = 1
    /\ Cardinality(DOMAIN mf.table.method_map) = 2
    /\ mf.table.default # None
    /\ outcome.selected # mf.table.default
    /\ \A c \in Satisfied : outcome.selected = mf.table.method_map[c]

\* C2: when no registered constraint is satisfied, the call invokes the
\* default if there is one and otherwise raises NoSuchMethodError without
\* invoking anything, the empty table without default included.
C2_NoMatchDefaultOrNoSuchMethod ==
    (IsCall /\ Satisfied = {}) =>
        IF mf.table.default # None
        THEN outcome.raised = "none" /\ outcome.selected = mf.table.default
        ELSE /\ outcome.raised = "NoSuchMethodError"
             /\ outcome.selected = None
             /\ outcome.result = NoResult

\* C3: when two or more registered constraints are satisfied, the call
\* raises AmbiguousMethodError listing exactly the satisfied constraints
\* and invokes nothing, whether or not there is a default.
C3_AmbiguousRaises ==
    (IsCall /\ Cardinality(Satisfied) >= 2) =>
        /\ outcome.raised = "AmbiguousMethodError"
        /\ outcome.listed = Satisfied
        /\ outcome.selected = None
        /\ outcome.result = NoResult

C3_Witness ==
    /\ IsCall
    /\ Cardinality(Satisfied) >= 2
    /\ mf.table.default # None
    /\ outcome.raised = "AmbiguousMethodError"

\* C4: register on a table whose __name__ is already set (by its default
\* or by an earlier register) with a function of another name fails in
\* that very call.
C4_NameMismatchRejected ==
    [][(/\ IsTable(mf)
        /\ outcome'.op = "register"
        /\ mf.table.name # NoAttr
        /\ NameOf(outcome'.method) # mf.table.name)
       => outcome'.raised = "AssertionError"]_vars

C4_Witness ==
    /\ IsTable(mf)
    /\ outcome.op = "register"
    /\ outcome.raised = "AssertionError"
    /\ mf.table.default = None
    /\ NameOf(outcome.method) # mf.table.name

\* C5: register under a constraint that is already a key stores the new
\* function under it and leaves the key set, every other entry and the
\* default as they were.
C5_ReRegisterReplaces ==
    [][(/\ IsTable(mf)
        /\ outcome'.op = "register"
        /\ outcome'.spec \in DOMAIN mf.table.method_map)
       => /\ DOMAIN mf'.table.method_map = DOMAIN mf.table.method_map
          /\ mf'.table.method_map[outcome'.spec] = outcome'.method
          /\ \A c \in DOMAIN mf.table.method_map \ {outcome'.spec} :
                 mf'.table.method_map[c] = mf.table.method_map[c]
          /\ mf'.table.default = mf.table.default]_vars

C5_Witness ==
    /\ IsTable(mf)
    /\ outcome.op = "register"
    /\ outcome.raised = "none"
    /\ outcome.prior \notin {None, outcome.method}
    /\ mf.table.method_map[outcome.spec] = outcome.method
    /\ Cardinality(DOMAIN mf.table.method_map) = 2
    /\ mf.table.default # None

\* The function a call has to select: the unique match, or the default
\* when nothing matches; None when the dispatch itself fails.
Expected ==
    IF Cardinality(Satisfied) = 1 THEN mf.table.method_map[CHOOSE c \in Satisfied : TRUE]
    ELSE IF Satisfied = {} THEN mf.table.default
    ELSE None

\* C8: whenever a call selects a function (the unique match or the
\* default), the outcome of the call is that function's outcome for the
\* receiver and arguments, returned or raised, and never a dispatch error
\* or another function's outcome.
C8_OutcomePassesThrough ==
    (IsCall /\ Expected # None) =>
        /\ outcome.raised = "none"
        /\ outcome.selected = Expected
        /\ outcome.result = Body(Expected, Receiver, outcome.args)

C8_Witness ==
    /\ IsCall
    /\ Cardinality(Satisfied) = 1
    /\ outcome.result.kind = "raise"
    /\ outcome.result.by = outcome.selected
    /\ mf.table.default \notin {None, outcome.selected}

\* C9: calling what __get__ returns for an instance with some arguments
\* has the outcome of calling the table with the instance followed by
\* those arguments.
C9_BoundCallEquivalent ==
    (IsTable(mf) /\ outcome.op = "bound") =>
        LET direct == SpecMultiMethod_call(mf.table, <<Receiver>> \o outcome.args)
        IN  /\ outcome.raised = direct.raised
            /\ outcome.selected = direct.selected
            /\ outcome.listed = direct.listed
            /\ outcome.result = direct.result

C9_Witness ==
    /\ IsTable(mf)
    /\ outcome.op = "bound"
    /\ outcome.selected # None
    /\ outcome.result.kind = "return"
    /\ outcome.result.self = <<Receiver>>
    /\ Len(outcome.args) = 1

---------------------------------------------------------------------------
(* Properties of the class body (specification SpecScope) *)

\* The last operation called a name that the class binds to a table.
IsNameCall == outcome.op = "callname" /\ IsTable(scope[outcome.name])
NameTable == scope[outcome.name].table
NameSatisfied ==
    {c \in DOMAIN NameTable.method_map : satisfies(c, Receiver.spec)}

\* C6: once a plain definition of a name has been processed after
\* constrained ones, the name is bound to exactly that function: every
\* call of the name, whatever the spec, runs it.
C6_LateDefaultOverrides ==
    \A n \in Names :
        shadowed[n] # {} =>
            /\ scope[n].kind = "function"
            /\ (outcome.op = "def" /\ outcome.name = n) =>
                   scope[n].func = outcome.method
            /\ (outcome.op = "callname" /\ outcome.name = n) =>
                   /\ outcome.raised = "none"
                   /\ outcome.selected = scope[n].func
                   /\ outcome.result = Body(scope[n].func, Receiver, outcome.args)

C6_Witness ==
    /\ outcome.op = "callname"
    /\ shadowed[outcome.name] # {}
    /\ Receiver.spec = Constraints
    /\ outcome.selected = scope[outcome.name].func
    /\ outcome.selected \notin shadowed[outcome.name]

\* C7: a constrained definition of a name makes a table with the plain
\* function bound to the name as default, or without default when the name
\* is unbound, or goes on with the table already bound; it stores the new
\* function under the constraint, and the name is bound to the table.
C7_WhenBuildsTable ==
    [][outcome'.op = "when" =>
        LET n == outcome'.name
            c == outcome'.spec
            m == outcome'.method
            new == scope'[n]
        IN  /\ IsTable(new)
            /\ new.table.method_map[c] = m
            /\ scope[n].kind = "function" =>
                   /\ new.table.default = scope[n].func
                   /\ DOMAIN new.table.method_map = {c}
            /\ scope[n].kind = "None" =>
                   /\ new.table.default = None
                   /\ DOMAIN new.table.method_map = {c}
            /\ IsTable(scope[n]) =>
                   /\ new.table.default = scope[n].table.default
                   /\ new.table.name = scope[n].table.name
                   /\ DOMAIN new.table.method_map =
                          DOMAIN scope[n].table.method_map \cup {c}
                   /\ \A k \in DOMAIN scope[n].table.method_map \ {c} :
                          new.table.method_map[k] = scope[n].table.method_map[k]
            /\ \A other \in Names \ {n} : scope'[other] = scope[other]]_vars

C7_Witness ==
    /\ outcome.op = "when"
    /\ IsTable(scope[outcome.name])
    /\ scope[outcome.name].table.default # None
    /\ DOMAIN scope[outcome.name].table.method_map = Constraints
    /\ outcome.prior = None
    /\ \A c \in Constraints :
           scope[outcome.name].table.method_map[c] # scope[outcome.name].table.default

---------------------------------------------------------------------------
(* Further properties of the table API (specification Spec) *)

\* The registered constraints of table t that the spec d satisfies.
SatisfiedIn(t, d) == {c \in DOMAIN t.method_map : satisfies(c, d)}

\* C11: a call leaves method_map, default and __name__ of the table as
\* they were, whatever its outcome, and what it selects or lists is fixed
\* by the table and the receiver's spec alone, not by earlier calls.
C11_ResolutionIsPureRead ==
    [][(IsTable(mf) /\ outcome'.op \in {"call", "bound"}) =>
        LET t == mf.table
            sat == SatisfiedIn(t, outcome'.receiver[1].spec)
        IN  /\ mf' = mf
            /\ outcome'.selected =
                   IF Cardinality(sat) = 1 THEN t.method_map[CHOOSE c \in sat : TRUE]
                   ELSE IF sat = {} THEN t.default ELSE None
            /\ outcome'.raised = "none" <=> outcome'.selected # None
            /\ Cardinality(sat) >= 2 =>
                   outcome'.raised = "AmbiguousMethodError" /\ outcome'.listed = sat]_vars

C11_Witness ==
    /\ IsCall
    /\ outcome.raised = "NoSuchMethodError"
    /\ Cardinality(DOMAIN mf.table.method_map) = 2
    /\ outcome.listed = DOMAIN mf.table.method_map
    /\ mf.table.default = None

\* C12: in every table state, the one a rejected register leaves behind
\* included, every function stored in method_map has the table's __name__.
C12_EntriesShareTheName ==
    IsTable(mf) =>
        \A c \in DOMAIN mf.table.method_map :
            NameOf(mf.table.method_map[c]) = mf.table.name

\* C13: the table's __name__ is set once, from the default at construction
\* or else by the first register, and no later register, rejected or not,
\* and no call changes it.
C13_NameSetOnce ==
    [][/\ outcome'.op = "new" =>
              mf'.table.name = IF outcome'.method # None
                               THEN NameOf(outcome'.method) ELSE NoAttr
       /\ (IsTable(mf) /\ outcome'.op = "register") =>
              mf'.table.name = IF mf.table.name = NoAttr
                               THEN NameOf(outcome'.method) ELSE mf.table.name
       /\ (IsTable(mf) /\ outcome'.op \in {"call", "bound"}) =>
              mf'.table.name = mf.table.name]_vars

C13_Witness ==
    /\ IsTable(mf)
    /\ outcome.op = "register"
    /\ outcome.raised = "AssertionError"
    /\ mf.table.default # None
    /\ mf.table.name = NameOf(mf.table.default)
    /\ mf.table.method_map[outcome.spec] = outcome.method

---------------------------------------------------------------------------
(* Properties of table construction (specification SpecLifecycle) *)

\* C14 as stated: over any sequence of plain and constrained definitions
\* of a name at most one table is ever constructed for it, at the first
\* constrained definition.
C14_OneTablePerName ==
    \A n \in Names :
        /\ created[n] <= 1
        /\ IsTable(scope[n]) => created[n] = 1

\* C14 as amended: a table is constructed for a name exactly when a
\* constrained definition of it is processed while the name is not bound
\* to a table, that is at the first constrained definition and at the first
\* one after each plain definition; constrained definitions of a name
\* bound to a table and plain definitions construct none.
C14_TablePerUnboundWhen ==
    [][/\ outcome'.op = "when" =>
              created' = [created EXCEPT ![outcome'.name] =
                              IF IsTable(scope[outcome'.name]) THEN @ ELSE @ + 1]
       /\ outcome'.op = "def" => created' = created]_vars

C14_Witness ==
    /\ outcome.op = "when"
    /\ created[outcome.name] = 2
    /\ IsTable(scope[outcome.name])
    /\ scope[outcome.name].table.default # None
    /\ DOMAIN scope[outcome.name].table.method_map = {outcome.spec}

---------------------------------------------------------------------------
(* Properties of registration order (specification SpecOrder) *)

\* C15: two tables with the same default that were given the same pairs
\* with distinct constraints, in whatever orders, select the same function
\* or raise the same error listing the same constraints, for every
\* receiver.
C15_OrderIrrelevant ==
    outcome.op = "dispatch" =>
        LET other == SpecMultiMethod_call(order.right, <<Receiver>> \o outcome.args)
        IN  /\ outcome.raised = other.raised
            /\ outcome.selected = other.selected
            /\ outcome.listed = other.listed
            /\ outcome.result = other.result

C15_Witness ==
    /\ outcome.op = "dispatch"
    /\ order.left.name # order.right.name
    /\ Cardinality(DOMAIN order.left.method_map) = 2
    /\ outcome.selected # None
    /\ NameOf(outcome.selected) # order.left.name

====
